---- MODULE Spec2Model ----
(***************************************************************************)
(* Model of app.py, the tobacco / lung-cancer dashboard script.            *)
(*                                                                         *)
(* The script is one top-to-bottom Streamlit run: two memoised loaders,    *)
(* a country selection, grouped means, two top-5 rankings, two linear      *)
(* forecasts and a multi-indicator breakdown.  A rerun (a change of the    *)
(* selected country, or a plain rerun) stops the current run wherever it   *)
(* is and runs the script from its first line in a fresh namespace; only   *)
(* the st.cache_data store and the selection survive a rerun.              *)
(*                                                                         *)
(* Numbers are exact rationals <<num, den>> with den > 0, in lowest terms; *)
(* the missing value (pandas NaN) is <<0, 0>>.  A missing string cell is   *)
(* the string NA.                                                          *)
(***************************************************************************)
EXTENDS Integers, Sequences, FiniteSets, TLC

VARIABLES
    src_tob,     \* rows of data/rep_gho_tobacco/data.xlsx, Sheet1
    src_mor,     \* rows of data/rep_ihme_inc/data.xlsx, Sheet1
    cache,       \* st.cache_data store: key -> cached return value
    reads,       \* number of pd.read_excel calls executed so far
    call,        \* the most recent loader call: its key, whether it hit the cache
    first,       \* history: (function, path, indicators) -> first value returned
    pc,          \* position of the script run
    bound,       \* names bound in the namespace of the current run
    options,     \* the option list of the selectbox
    country,     \* st.selectbox result
    df_tob, df_mor, tob, mor, kpi,
    map_df, grp_prev, grp_mor, top_prev, top_mor,
    prev_ts, mort_ts, forecasts, df_plot, df_mplot, df_stack,
    outcome,     \* per forecast series: "pending", "ok" or "raised"
    argsort,     \* the order the build's sort gives each year column it met
    seen         \* history: country -> outputs of its first finished run

vars == << src_tob, src_mor, cache, reads, call, first, pc, bound, options,
           country,
           df_tob, df_mor, tob, mor, kpi, map_df, grp_prev, grp_mor,
           top_prev, top_mor, prev_ts, mort_ts, forecasts, df_plot, df_mplot,
           df_stack, outcome, argsort, seen >>

----------------------------------------------------------------------------
(* Bounds of the model *)

MaxTobRows == 4
MaxMorRows == 3
MaxLoadRows == 3
MaxRecs == 3
NumTopCountries == 6
MaxReads == 4

----------------------------------------------------------------------------
(* Sequences and exact arithmetic *)

Range(s) == { s[i] : i \in 1..Len(s) }

SeqsUpTo(S, n) == UNION { [1..k -> S] : k \in 0..n }

Abs(n) == IF n < 0 THEN -n ELSE n

RECURSIVE GCD(_, _)
GCD(a, b) == IF b = 0 THEN a ELSE GCD(b, a % b)

NaN == << 0, 0 >>

IsNaN(q) == q[2] = 0

Norm(n, d) ==
    IF d = 0 THEN NaN
    ELSE LET g == GCD(Abs(n), Abs(d))
             s == IF d < 0 THEN -1 ELSE 1
         IN  << (s * n) \div g, (s * d) \div g >>

Num(n) == << n, 1 >>

RAdd(p, q) == IF IsNaN(p) \/ IsNaN(q) THEN NaN
              ELSE Norm(p[1] * q[2] + q[1] * p[2], p[2] * q[2])

RSub(p, q) == IF IsNaN(p) \/ IsNaN(q) THEN NaN
              ELSE Norm(p[1] * q[2] - q[1] * p[2], p[2] * q[2])

RMul(p, q) == IF IsNaN(p) \/ IsNaN(q) THEN NaN
              ELSE Norm(p[1] * q[1], p[2] * q[2])

RDiv(p, q) == IF IsNaN(p) \/ IsNaN(q) THEN NaN
              ELSE Norm(p[1] * q[2], p[2] * q[1])

\* p < q on defined numbers
RLess(p, q) == p[1] * q[2] < q[1] * p[2]

RECURSIVE RSum(_)
RSum(s) == IF s = << >> THEN Num(0) ELSE RAdd(Head(s), RSum(Tail(s)))

----------------------------------------------------------------------------
(* Program constants *)

NA == "<NA>"

PREV_IND == "Estimate of current tobacco use prevalence (age-standardized) (%)"

MORT_IND == "2.A.05 Tracheal, bronchus, and lung cancer incidence (age standardized) (per 100 000 population)"

all_inds == <<
    "Current cigarette smoking among adolescents (%)",
    "Current e-cigarette use among adolescents (%)",
    "Current smokeless tobacco use among adolescents (%)",
    "Current tobacco smoking among adolescents (%)",
    "Current tobacco use among adolescents (%)",
    "Daily cigarette smoking among adolescents (%)",
    "Daily tobacco smoking among adolescents (%)",
    "Current cigarette smoking among adults (%)",
    "Current e-cigarette use among adults (%)",
    "Current smokeless tobacco use among adults (%)",
    "Current tobacco smoking among adults (%)",
    "Current tobacco use among adults (%)",
    "Daily cigarette smoking among adults (%)",
    "Daily e-cigarette use among adults (%)",
    "Daily smokeless tobacco use among adults (%)",
    "Daily tobacco smoking among adults (%)",
    "Daily tobacco use among adults (%)" >>

Sexes == << "Male", "Female" >>

years_future == << 2025, 2030 >>

TopCount == 5

tob_path == "./data/rep_gho_tobacco/data.xlsx"

mor_path == "./data/rep_ihme_inc/data.xlsx"

----------------------------------------------------------------------------
(* Loaders *)

\* Series.astype(int) on a number: the fraction is dropped, towards zero
AsTypeInt(q) == IF q[1] >= 0 THEN q[1] \div q[2] ELSE -((-q[1]) \div q[2])

\* DataFrame.rename of one column, the other columns kept
Rename(r, old, new) ==
    [ f \in ((DOMAIN r) \ {old}) \cup {new} |->
        IF f = new THEN r[old] ELSE r[f] ]

\* Mutant: the subgroup test is left out of the row filter
RowKeptAnySubgroup(r, indicators) == r.indicator_name \in Range(indicators)

RowKept(r, indicators) ==
    /\ r.indicator_name \in Range(indicators)
    /\ r.subgroup \in {"Male", "Female"}

Normalize(r, value) ==
    LET a == Rename(r, "setting", "country")
        b == Rename(a, "date", "year")
        c == Rename(b, "subgroup", "sex")
        d == Rename(c, "estimate", value)
    IN  [ d EXCEPT !.year = AsTypeInt(d.year) ]

RECURSIVE LoadRows(_, _, _)
LoadRows(rows, indicators, value) ==
    IF rows = << >> THEN << >>
    ELSE LET rest == LoadRows(Tail(rows), indicators, value)
         IN  IF RowKept(Head(rows), indicators)
             THEN << Normalize(Head(rows), value) >> \o rest
             ELSE rest

\* astype(int) raises on a column that holds a missing value: a row that
\* passes the filter has no date
CastRaises(rows, indicators) ==
    \E i \in 1..Len(rows) : RowKept(rows[i], indicators) /\ IsNaN(rows[i].date)

\* What a loader body does: the frame it returns, or the exception
LoadFrame(rows, indicators, value) ==
    IF CastRaises(rows, indicators)
    THEN [ raised |-> TRUE, rows |-> << >> ]
    ELSE [ raised |-> FALSE, rows |-> LoadRows(rows, indicators, value) ]

load_tobacco(rows, indicators) == LoadFrame(rows, indicators, "prevalence")

load_mortality(rows) == LoadFrame(rows, << MORT_IND >>, "mortality")

----------------------------------------------------------------------------
(* Grouped means, top-N, least-squares fit *)

\* Code-point order of the strings that occur as group keys
StrOrder == << "Algeria", "Brazil", "Chad", "Denmark", "Egypt", "Female",
               "France", "Ghana", "Haiti", "High income", "Kosovo", "LBN",
               "Lebanon", "Low income", "Male", "TCD", "Upper middle income",
               "XKX" >>

StrRank(v) == CHOOSE i \in 1..Len(StrOrder) : StrOrder[i] = v

Ord(f, v) == IF f = "year" THEN v ELSE StrRank(v)

IsNA(f, v) == IF f = "year" THEN FALSE ELSE v = NA

\* Mutant: a missing cell counts as zero
MeanZeroFill(values) ==
    IF values = << >> THEN NaN
    ELSE RDiv(RSum([ i \in 1..Len(values) |->
                       IF IsNaN(values[i]) THEN Num(0) ELSE values[i] ]),
              Num(Len(values)))

\* Series.mean(): NaN cells are skipped; the mean of no cell is NaN
Mean(values) ==
    LET vs == SelectSeq(values, LAMBDA q : ~IsNaN(q))
    IN  IF vs = << >> THEN NaN ELSE RDiv(RSum(vs), Num(Len(vs)))

Column(df, f) == [ i \in 1..Len(df) |-> df[i][f] ]

KeyOf(r, keys) == [ i \in 1..Len(keys) |-> r[keys[i]] ]

\* groupby(dropna=True): a row with a missing key cell belongs to no group
KeyPresent(r, keys) == \A i \in 1..Len(keys) : ~IsNA(keys[i], r[keys[i]])

RECURSIVE KeyLess(_, _, _, _)
KeyLess(a, b, keys, i) ==
    IF i > Len(keys) THEN FALSE
    ELSE IF Ord(keys[i], a[i]) # Ord(keys[i], b[i])
         THEN Ord(keys[i], a[i]) < Ord(keys[i], b[i])
         ELSE KeyLess(a, b, keys, i + 1)

\* groupby(sort=True): the group keys in ascending order
RECURSIVE SortKeys(_, _)
SortKeys(K, keys) ==
    IF K = {} THEN << >>
    ELSE LET lo == CHOOSE a \in K : \A b \in K \ {a} : KeyLess(a, b, keys, 1)
         IN  << lo >> \o SortKeys(K \ {lo}, keys)

GroupKeys(df, keys) ==
    { KeyOf(df[i], keys) : i \in { j \in 1..Len(df) : KeyPresent(df[j], keys) } }

\* df.groupby(keys, as_index=False)[val].mean()
GroupMean(df, keys, val) ==
    LET ks == SortKeys(GroupKeys(df, keys), keys)
        members(k) == SelectSeq(df, LAMBDA r : KeyPresent(r, keys)
                                               /\ KeyOf(r, keys) = k)
        pos(f) == CHOOSE i \in 1..Len(keys) : keys[i] = f
    IN  [ n \in 1..Len(ks) |->
            [ f \in Range(keys) \cup {val} |->
                IF f = val THEN Mean(Column(members(ks[n]), val))
                ELSE ks[n][pos(f)] ] ]

Reverse(s) == [ i \in 1..Len(s) |-> s[Len(s) + 1 - i] ]

Take(df, p) == [ i \in 1..Len(p) |-> df[p[i]] ]

\* The orders of the positions I that leave the column ascending: a
\* position of a least cell, then an order of the rest
RECURSIVE AscendingOrders(_, _)
AscendingOrders(col, I) ==
    IF I = {} THEN { << >> }
    ELSE LET least == { i \in I : \A j \in I : ~RLess(col[j], col[i]) }
         IN  UNION { { << i >> \o t : t \in AscendingOrders(col, I \ {i}) } :
                     i \in least }

\* The orders an argsort of the column may return.  The sort kind is the
\* default, quicksort, which is not stable: the generic build sorts an array
\* of at most 16 cells by insertion and leaves equal cells in place, a build
\* that dispatches to a vectorised sorting network does not, so equal cells
\* come out in any order.
Argsorts(col) == AscendingOrders(col, 1..Len(col))

\* The sort is a function of the array: the order it gave an array once is
\* the order it gives it again.  memo holds the orders given so far.
Orders(memo, dtype, col) ==
    IF << dtype, col >> \in DOMAIN memo THEN { memo[<< dtype, col >>] }
    ELSE Argsorts(col)

\* memo once the array has been given the order p (recorded where the array
\* leaves a choice)
Remember(memo, dtype, col, p) ==
    IF Cardinality(Argsorts(col)) > 1
    THEN [ c \in (DOMAIN memo) \cup {<< dtype, col >>} |->
             IF c = << dtype, col >> THEN p ELSE memo[c] ]
    ELSE memo

\* Stable insertion of r into a frame sorted on f, descending
RECURSIVE InsertDesc(_, _, _)
InsertDesc(s, r, f) ==
    IF s = << >> THEN << r >>
    ELSE IF RLess(Head(s)[f], r[f]) THEN << r >> \o s
         ELSE << Head(s) >> \o InsertDesc(Tail(s), r, f)

RECURSIVE SortDesc(_, _)
SortDesc(s, f) ==
    IF s = << >> THEN << >>
    ELSE InsertDesc(SortDesc(SubSeq(s, 1, Len(s) - 1), f), s[Len(s)], f)

\* The array nlargest hands to argsort when n >= len(df): the defined cells
\* of the column, last row first (sort_values(ascending=False))
DescColumn(df, f) ==
    Column(Reverse(SelectSeq(df, LAMBDA r : ~IsNaN(r[f]))), f)

\* The orders nlargest can get: none to choose when n < len(df)
NlargestOrders(memo, df, n, f) ==
    IF n < Len(df) THEN { << >> }
    ELSE Orders(memo, "float64", DescColumn(df, f))

NlargestRemember(memo, df, n, f, p) ==
    IF n < Len(df) THEN memo
    ELSE Remember(memo, "float64", DescColumn(df, f), p)

\* DataFrame.nlargest(n, f), keep="first".  With n < len(df) the n largest
\* defined cells are taken and sorted with a stable sort: descending, equal
\* cells in frame order, then NaN rows in frame order up to n rows.  With
\* n >= len(df) the frame is sorted descending with the default sort, whose
\* order of the reversed defined cells is p, and the NaN rows come last.
Nlargest(df, n, f, p) ==
    LET defined == SelectSeq(df, LAMBDA r : ~IsNaN(r[f]))
        missing == SelectSeq(df, LAMBDA r : IsNaN(r[f]))
        all     == SortDesc(defined, f) \o missing
    IN  IF n < Len(df) THEN SubSeq(all, 1, n)
        ELSE Reverse(Take(Reverse(defined), p)) \o missing

WithType(df, t) ==
    [ i \in 1..Len(df) |->
        [ f \in (DOMAIN df[i]) \cup {"type"} |->
            IF f = "type" THEN t ELSE df[i][f] ] ]

\* The array sort_values("year") hands to argsort
YearColumn(df) == [ i \in 1..Len(df) |-> Num(df[i].year) ]

\* df.sort_values("year") when the sort gives the year column the order p
SortValuesYear(df, p) == Take(df, p)

\* ts is tob.groupby(["year","sex"], as_index=False)[val].mean()
\*           .sort_values("year") with the "type" column set to "Actual"
TimeSeries(df, val, ts) ==
    LET g == GroupMean(df, << "year", "sex" >>, val)
    IN  \E p \in Orders(argsort, "int64", YearColumn(g)) :
            /\ argsort' = Remember(argsort, "int64", YearColumn(g), p)
            /\ ts = WithType(SortValuesYear(g, p), "Actual")

\* np.polyfit(x, y, 1).  An empty x raises TypeError.  With a single distinct
\* x the system is rank deficient and lstsq returns the minimum-norm solution
\* of the column-scaled system (a RankWarning, no exception).
Polyfit(xs, ys) ==
    LET n   == Len(xs)
        X   == [ i \in 1..n |-> Num(xs[i]) ]
        sx  == RSum(X)
        sy  == RSum(ys)
        sxx == RSum([ i \in 1..n |-> RMul(X[i], X[i]) ])
        sxy == RSum([ i \in 1..n |-> RMul(X[i], ys[i]) ])
        det == RSub(RMul(Num(n), sxx), RMul(sx, sx))
        m   == RDiv(RSub(RMul(Num(n), sxy), RMul(sx, sy)), det)
        b   == RDiv(RSub(sy, RMul(m, sx)), Num(n))
        yb  == RDiv(sy, Num(n))
    IN  IF n = 0 THEN [ raised |-> TRUE, m |-> NaN, b |-> NaN ]
        ELSE IF det = Num(0)
             THEN [ raised |-> FALSE,
                    m |-> RDiv(yb, RMul(Num(2), X[1])),
                    b |-> RDiv(yb, Num(2)) ]
             ELSE [ raised |-> FALSE, m |-> m, b |-> b ]

\* The rows one pass of the forecast loop appends for one sex
ForecastRows(fit, sex, val) ==
    [ i \in 1..Len(years_future) |->
        [ f \in {"year", "sex", val, "type"} |->
            CASE f = "year" -> years_future[i]
              [] f = "sex"  -> sex
              [] f = "type" -> "Forecast"
              [] OTHER      -> RAdd(RMul(fit.m, Num(years_future[i])), fit.b) ] ]

----------------------------------------------------------------------------
(* st.cache_data *)

\* Mutant: the cache is keyed by the function and the path only
CacheKeyPathOnly(fn, args) == << fn, << args[1] >> >>

\* The key of a memoised call: the function and its arguments
CacheKey(fn, args) == << fn, args >>

Put(f, k, v) == [ x \in (DOMAIN f) \cup {k} |-> IF x = k THEN v ELSE f[x] ]

NoCall == [ fn |-> "none", args |-> << >>, hit |-> FALSE, raised |-> FALSE,
            reads_at |-> 0, same |-> FALSE, ret |-> << >> ]

\* One call of a memoised loader: `value` is what the function body does
\* when it runs.  On a hit the body (and its read_excel) is skipped; a body
\* that raises leaves nothing in the cache.  The call record also keeps
\* whether a call with the same path and the same set of indicator names
\* had returned before.
CachedCall(fn, args, value) ==
    LET key    == CacheKey(fn, args)
        hit    == key \in DOMAIN cache
        raised == ~hit /\ value.raised
        ret    == IF hit THEN cache[key] ELSE value.rows
        id     == << fn, args >>
        names(a) == IF Len(a) = 1 THEN {} ELSE Range(a[2])
    IN  /\ ~hit => reads < MaxReads
        /\ cache' = IF hit \/ raised THEN cache ELSE Put(cache, key, ret)
        /\ reads' = IF hit THEN reads ELSE reads + 1
        /\ call'  = [ fn |-> fn, args |-> args, hit |-> hit,
                      raised |-> raised, reads_at |-> reads,
                      same |-> \E k \in DOMAIN first :
                                  /\ k[1] = fn /\ k[2][1] = args[1]
                                  /\ names(k[2]) = names(args),
                      ret |-> ret ]
        /\ first' = IF raised \/ id \in DOMAIN first THEN first
                    ELSE Put(first, id, ret)

CallLoadTobacco(indicators) ==
    /\ CachedCall("load_tobacco", << tob_path, indicators >>,
                  load_tobacco(src_tob, indicators))
    /\ df_tob' = IF call'.raised THEN df_tob ELSE call'.ret

CallLoadMortality ==
    /\ CachedCall("load_mortality", << mor_path >>, load_mortality(src_mor))
    /\ df_mor' = IF call'.raised THEN df_mor ELSE call'.ret

----------------------------------------------------------------------------
(* The loaders alone: any sequence of calls on an unchanged source *)

ADULT_IND == "Current tobacco use among adults (%)"

RawRow(c, d, g, i, e) ==
    [ setting |-> c, date |-> d, subgroup |-> g, indicator_name |-> i,
      estimate |-> e ]

LoadRawRows == {
    RawRow("Lebanon", Num(2020), "Male", PREV_IND, Num(10)),
    RawRow("Lebanon", << 4041, 2 >>, "Female", PREV_IND, NaN),
    RawRow("Lebanon", Num(2020), "Both sexes", PREV_IND, Num(30)),
    RawRow("Chad", << -1, 2 >>, "Female", ADULT_IND, Num(30)),
    RawRow("Chad", Num(2020), "Male", MORT_IND, Num(50)),
    RawRow("Chad", Num(2020), "15-24 years", MORT_IND, Num(10)),
    RawRow("Lebanon", NaN, "Male", ADULT_IND, Num(10)) }

\* The indicator lists of the calls of load_tobacco: the list of the first
\* call and the list of the second
IndicatorLists == { << PREV_IND >>, all_inds }

Series == { << t, x >> : t \in {"prevalence", "mortality"}, x \in Range(Sexes) }

\* The namespace of a run that has not executed its first line
Unrun ==
    /\ bound = {}
    /\ options = << >>
    /\ df_tob = << >> /\ df_mor = << >> /\ tob = << >> /\ mor = << >>
    /\ kpi = << >>
    /\ map_df = << >> /\ grp_prev = << >> /\ grp_mor = << >>
    /\ top_prev = << >> /\ top_mor = << >>
    /\ prev_ts = << >> /\ mort_ts = << >> /\ forecasts = << >>
    /\ df_plot = << >> /\ df_mplot = << >> /\ df_stack = << >>
    /\ outcome = [ x \in Series |-> "pending" ]

ColdCache ==
    /\ cache = << >>
    /\ reads = 0
    /\ call = NoCall
    /\ first = << >>
    /\ seen = << >>

InitLoad ==
    /\ src_tob \in SeqsUpTo(LoadRawRows, MaxLoadRows)
    /\ src_mor = src_tob
    /\ pc = "loader"
    /\ country = NA
    /\ ColdCache
    /\ argsort = << >>
    /\ Unrun

LoaderCallTobacco ==
    /\ pc = "loader"
    /\ \E indicators \in IndicatorLists : CallLoadTobacco(indicators)
    /\ UNCHANGED << src_tob, src_mor, argsort, pc, bound, options, country, df_mor, tob, mor,
                    kpi, map_df, grp_prev, grp_mor, top_prev, top_mor,
                    prev_ts, mort_ts, forecasts, df_plot, df_mplot, df_stack,
                    outcome, seen >>

LoaderCallMortality ==
    /\ pc = "loader"
    /\ CallLoadMortality
    /\ UNCHANGED << src_tob, src_mor, argsort, pc, bound, options, country, df_tob, tob, mor,
                    kpi, map_df, grp_prev, grp_mor, top_prev, top_mor,
                    prev_ts, mort_ts, forecasts, df_plot, df_mplot, df_stack,
                    outcome, seen >>

NextLoad == LoaderCallTobacco \/ LoaderCallMortality

SpecLoad == InitLoad /\ [][NextLoad]_vars

----------------------------------------------------------------------------
(* The script *)

Bind(names) == bound' = bound \cup names

\* sorted(df_tob.country.unique())
SortedUnique(df, f) == SortKeys(GroupKeys(df, << f >>), << f >>)

\* df_tob.country.unique(): the distinct cells, the missing one included
Unique(df, f) == { df[i][f] : i \in 1..Len(df) }

\* sorted() compares a missing cell (a float) with a name (a str)
OptionsRaise(df) == NA \in Unique(df, "country") /\ Unique(df, "country") # {NA}

CountryOptions(df) ==
    IF Unique(df, "country") = {NA} THEN << NA >>
    ELSE LET ks == SortedUnique(df, "country")
         IN  [ i \in 1..Len(ks) |-> ks[i][1] ]

\* The selectbox: the session's selection when there is one, else the option
\* at the default index ("Lebanon" when listed, else the first); None when
\* there is no option
Selected(opts, chosen) ==
    IF chosen # NA THEN chosen
    ELSE IF opts = << >> THEN NA
    ELSE IF "Lebanon" \in Range(opts) THEN "Lebanon" ELSE opts[1]

\* df[df.country == c]: a missing cell equals nothing, and nothing equals a
\* missing selection
OfCountry(df, c) == SelectSeq(df, LAMBDA r : c # NA /\ r.country = c)

OfSex(df, x) == SelectSeq(df, LAMBDA r : r.sex = x)

Kpi(t, m) ==
    [ male_prev   |-> Mean(Column(OfSex(t, "Male"), "prevalence")),
      female_prev |-> Mean(Column(OfSex(t, "Female"), "prevalence")),
      male_mort   |-> Mean(Column(OfSex(m, "Male"), "mortality")),
      female_mort |-> Mean(Column(OfSex(m, "Female"), "mortality")) ]

RenameAll(df, old, new) == [ i \in 1..Len(df) |-> Rename(df[i], old, new) ]

\* Mutant: the map is computed from the selected country's rows
MapDfOfSelection ==
    RenameAll(GroupMean(mor, << "country", "iso3" >>, "mortality"),
              "mortality", "avg_prev")

MapDf ==
    RenameAll(GroupMean(df_mor, << "country", "iso3" >>, "mortality"),
              "mortality", "avg_prev")

GrpPrev ==
    RenameAll(RenameAll(GroupMean(df_tob, << "wbincome2024" >>, "prevalence"),
                        "wbincome2024", "group"),
              "prevalence", "value")

GrpMor ==
    RenameAll(RenameAll(GroupMean(df_mor, << "wbincome2023" >>, "mortality"),
                        "wbincome2023", "group"),
              "mortality", "value")

PrevMeans == GroupMean(df_tob, << "country" >>, "prevalence")

MortMeans == GroupMean(df_mor, << "country" >>, "mortality")

TopPrev(p) == Nlargest(PrevMeans, TopCount, "prevalence", p)

TopMor(p) == Nlargest(MortMeans, TopCount, "mortality", p)

\* read_excel gives the columns of a workbook without data rows the dtype
\* object, which the grouped mean keeps and nlargest refuses (TypeError)
ObjectDtype(src) == src = << >>

\* df_tob[(df_tob.country == country) & df_tob.indicator_name.isin(all_inds)]
\* with the year_sex column
DfStack(df, c) ==
    LET rows == SelectSeq(OfCountry(df, c),
                          LAMBDA r : r.indicator_name \in Range(all_inds))
    IN  [ i \in 1..Len(rows) |->
            [ f \in (DOMAIN rows[i]) \cup {"year_sex"} |->
                IF f = "year_sex" THEN << rows[i].year, rows[i].sex >>
                ELSE rows[i][f] ] ]

ReadTob ==
    /\ pc = "read_tob"
    /\ CallLoadTobacco(<< PREV_IND >>)
    /\ IF call'.raised
       THEN pc' = "error" /\ UNCHANGED bound
       ELSE pc' = "read_mor" /\ Bind({"df_tob"})
    /\ UNCHANGED << src_tob, src_mor, argsort, options, country, df_mor, tob,
                    mor, kpi, map_df, grp_prev, grp_mor, top_prev, top_mor,
                    prev_ts, mort_ts, forecasts, df_plot, df_mplot, df_stack,
                    outcome, seen >>

ReadMor ==
    /\ pc = "read_mor"
    /\ CallLoadMortality
    /\ IF call'.raised
       THEN pc' = "error" /\ UNCHANGED bound
       ELSE pc' = "select" /\ Bind({"df_mor"})
    /\ UNCHANGED << src_tob, src_mor, argsort, options, country, df_tob, tob,
                    mor, kpi, map_df, grp_prev, grp_mor, top_prev, top_mor,
                    prev_ts, mort_ts, forecasts, df_plot, df_mplot, df_stack,
                    outcome, seen >>

Select ==
    /\ pc = "select"
    /\ IF OptionsRaise(df_tob)
       THEN /\ pc' = "error"
            /\ UNCHANGED << options, country, tob, mor, kpi, bound >>
       ELSE /\ options' = CountryOptions(df_tob)
            /\ country' = Selected(options', country)
            /\ tob' = OfCountry(df_tob, country')
            /\ mor' = OfCountry(df_mor, country')
            /\ kpi' = Kpi(tob', mor')
            /\ Bind({"country", "tob", "mor", "kpi"})
            /\ pc' = "aggregates"
    /\ UNCHANGED << src_tob, src_mor, argsort, cache, reads, call, first,
                    df_tob, df_mor, map_df, grp_prev, grp_mor, top_prev,
                    top_mor, prev_ts, mort_ts, forecasts, df_plot, df_mplot,
                    df_stack, outcome, seen >>

Aggregates ==
    /\ pc = "aggregates"
    /\ map_df' = MapDf
    /\ grp_prev' = GrpPrev
    /\ grp_mor' = GrpMor
    /\ IF ObjectDtype(src_tob)
       THEN /\ pc' = "error"
            /\ Bind({"map_df", "grp_prev", "grp_mor"})
            /\ UNCHANGED << top_prev, top_mor, argsort >>
       ELSE \E p \in NlargestOrders(argsort, PrevMeans, TopCount, "prevalence") :
            LET memo == NlargestRemember(argsort, PrevMeans, TopCount,
                                         "prevalence", p)
            IN  /\ top_prev' = TopPrev(p)
                /\ IF ObjectDtype(src_mor)
                   THEN /\ pc' = "error"
                        /\ Bind({"map_df", "grp_prev", "grp_mor", "top_prev"})
                        /\ argsort' = memo
                        /\ UNCHANGED top_mor
                   ELSE \E q \in NlargestOrders(memo, MortMeans, TopCount,
                                                "mortality") :
                        /\ top_mor' = TopMor(q)
                        /\ argsort' = NlargestRemember(memo, MortMeans,
                                                       TopCount, "mortality", q)
                        /\ Bind({"map_df", "grp_prev", "grp_mor", "top_prev",
                                 "top_mor"})
                        /\ pc' = "prev_ts"
    /\ UNCHANGED << src_tob, src_mor, cache, reads, call, first, options,
                    country, df_tob, df_mor, tob, mor, kpi, prev_ts, mort_ts,
                    forecasts, df_plot, df_mplot, df_stack, outcome, seen >>

PrevSeries ==
    /\ pc = "prev_ts"
    /\ TimeSeries(tob, "prevalence", prev_ts')
    /\ forecasts' = << >>
    /\ Bind({"prev_ts", "forecasts"})
    /\ pc' = "col3_Male"
    /\ UNCHANGED << src_tob, src_mor, cache, reads, call, first, options,
                    country, df_tob, df_mor, tob, mor, kpi, map_df, grp_prev,
                    grp_mor, top_prev, top_mor, mort_ts, df_plot, df_mplot,
                    df_stack, outcome, seen >>

\* One pass of a forecast loop: the fit of one sex's actual points and the
\* rows appended for it.  An exception of np.polyfit ends the run.
FitPass(ts, val, x, here, next) ==
    LET df_sex == OfSex(ts, x)
        fit    == Polyfit(Column(df_sex, "year"), Column(df_sex, val))
    IN  /\ pc = here
        /\ IF fit.raised
           THEN /\ pc' = "error"
                /\ outcome' = [ outcome EXCEPT ![<< val, x >>] = "raised" ]
                /\ UNCHANGED forecasts
           ELSE /\ pc' = next
                /\ outcome' = [ outcome EXCEPT ![<< val, x >>] = "ok" ]
                /\ forecasts' = forecasts \o ForecastRows(fit, x, val)
        /\ UNCHANGED << src_tob, src_mor, argsort, cache, reads, call, first, bound,
                        options, country, df_tob, df_mor, tob, mor, kpi,
                        map_df, grp_prev, grp_mor, top_prev, top_mor, prev_ts,
                        mort_ts, df_plot, df_mplot, df_stack, seen >>

PrevFitMale == FitPass(prev_ts, "prevalence", "Male", "col3_Male", "col3_Female")

PrevFitFemale ==
    FitPass(prev_ts, "prevalence", "Female", "col3_Female", "col3_combine")

PrevCombine ==
    /\ pc = "col3_combine"
    /\ df_plot' = prev_ts \o forecasts
    /\ Bind({"df_fut", "df_plot"})
    /\ pc' = "mort_ts"
    /\ UNCHANGED << src_tob, src_mor, argsort, cache, reads, call, first, options,
                    country, df_tob, df_mor, tob, mor, kpi, map_df, grp_prev,
                    grp_mor, top_prev, top_mor, prev_ts, mort_ts, forecasts,
                    df_mplot, df_stack, outcome, seen >>

MortSeries ==
    /\ pc = "mort_ts"
    /\ TimeSeries(mor, "mortality", mort_ts')
    /\ forecasts' = << >>
    /\ Bind({"mort_ts"})
    /\ pc' = "col4_Male"
    /\ UNCHANGED << src_tob, src_mor, cache, reads, call, first, options,
                    country, df_tob, df_mor, tob, mor, kpi, map_df, grp_prev,
                    grp_mor, top_prev, top_mor, prev_ts, df_plot, df_mplot,
                    df_stack, outcome, seen >>

MortFitMale == FitPass(mort_ts, "mortality", "Male", "col4_Male", "col4_Female")

MortFitFemale ==
    FitPass(mort_ts, "mortality", "Female", "col4_Female", "col4_combine")

MortCombine ==
    /\ pc = "col4_combine"
    /\ df_mplot' = mort_ts \o forecasts
    /\ Bind({"df_fut2", "df_mplot"})
    /\ pc' = "stack"
    /\ UNCHANGED << src_tob, src_mor, argsort, cache, reads, call, first, options,
                    country, df_tob, df_mor, tob, mor, kpi, map_df, grp_prev,
                    grp_mor, top_prev, top_mor, prev_ts, mort_ts, forecasts,
                    df_plot, df_stack, outcome, seen >>

Stack ==
    /\ pc = "stack"
    /\ CallLoadTobacco(all_inds)
    /\ IF call'.raised
       THEN pc' = "error" /\ Bind({"all_inds"}) /\ UNCHANGED df_stack
       ELSE /\ df_stack' = DfStack(df_tob', country)
            /\ Bind({"all_inds", "df_stack"})
            /\ pc' = "done"
    /\ UNCHANGED << src_tob, src_mor, argsort, options, country, df_mor, tob,
                    mor, kpi, map_df, grp_prev, grp_mor, top_prev, top_mor,
                    prev_ts, mort_ts, forecasts, df_plot, df_mplot, outcome,
                    seen >>

\* What a finished run has shown
Outputs ==
    [ pc |-> pc, bound |-> bound, kpi |-> kpi, map_df |-> map_df,
      grp_prev |-> grp_prev, grp_mor |-> grp_mor, top_prev |-> top_prev,
      top_mor |-> top_mor, prev_ts |-> prev_ts, df_plot |-> df_plot,
      mort_ts |-> mort_ts, df_mplot |-> df_mplot, df_stack |-> df_stack,
      outcome |-> outcome ]

Finished == pc \in {"done", "error"}

\* The next run starts with nothing bound
Fresh ==
    /\ bound' = {}
    /\ options' = << >>
    /\ df_tob' = << >> /\ df_mor' = << >> /\ tob' = << >> /\ mor' = << >>
    /\ kpi' = << >>
    /\ map_df' = << >> /\ grp_prev' = << >> /\ grp_mor' = << >>
    /\ top_prev' = << >> /\ top_mor' = << >>
    /\ prev_ts' = << >> /\ mort_ts' = << >> /\ forecasts' = << >>
    /\ df_plot' = << >> /\ df_mplot' = << >> /\ df_stack' = << >>
    /\ outcome' = [ x \in Series |-> "pending" ]

\* A rerun: the user picks a country in the selectbox the current run has
\* shown, or asks for the script to run again.  The current run stops where
\* it is, finished or not, and the script runs from its first line in a
\* fresh namespace, with the cache and the selection of the session.
Rerun ==
    /\ \E c \in (IF "country" \in bound THEN Range(options) ELSE {})
                 \cup {country} :
        country' = c
    /\ seen' = IF Finished /\ country \notin DOMAIN seen
               THEN Put(seen, country, Outputs) ELSE seen
    /\ pc' = "read_tob"
    /\ Fresh
    /\ UNCHANGED << src_tob, src_mor, argsort, cache, reads, call, first >>

Steps ==
    \/ ReadTob \/ ReadMor \/ Select \/ Aggregates \/ PrevSeries
    \/ PrevFitMale \/ PrevFitFemale \/ PrevCombine
    \/ MortSeries \/ MortFitMale \/ MortFitFemale \/ MortCombine
    \/ Stack

Next == Steps \/ Rerun

\* Workbooks whose rows are taken, in order and without repetition, from a
\* list of candidate rows
RECURSIVE SubTables(_, _)
SubTables(master, n) ==
    IF master = << >> \/ n = 0 THEN { << >> }
    ELSE SubTables(Tail(master), n)
         \cup { << Head(master) >> \o t : t \in SubTables(Tail(master), n - 1) }

TobRow(c, d, g, i, e, w) ==
    [ setting |-> c, date |-> Num(d), subgroup |-> g, indicator_name |-> i,
      estimate |-> e, wbincome2024 |-> w ]

MorRow(c, d, g, e, k, w) ==
    [ setting |-> c, date |-> Num(d), subgroup |-> g,
      indicator_name |-> MORT_IND, estimate |-> e, iso3 |-> k,
      wbincome2023 |-> w ]

TobMaster == <<
    TobRow("Lebanon", 2020, "Male", PREV_IND, Num(10), "Upper middle income"),
    TobRow("Lebanon", 2025, "Male", PREV_IND, Num(30), "Upper middle income"),
    TobRow("Lebanon", 2020, "Female", PREV_IND, Num(30), "Upper middle income"),
    TobRow("Lebanon", 2025, "Female", PREV_IND, Num(10), "Upper middle income"),
    [ TobRow("Lebanon", 2020, "Male", ADULT_IND, Num(20), "Upper middle income")
        EXCEPT !.date = NaN ],
    TobRow("Lebanon", 2020, "Male", ADULT_IND, Num(20), "Upper middle income"),
    TobRow("Chad", 2020, "Male", PREV_IND, Num(30), "Low income"),
    TobRow(NA, 2020, "Male", PREV_IND, Num(10), "Low income") >>

MorMaster == <<
    MorRow("Lebanon", 2020, "Male", Num(10), "LBN", "Upper middle income"),
    MorRow("Lebanon", 2025, "Female", Num(30), "LBN", "Upper middle income"),
    MorRow("Lebanon", 2025, "Male", Num(50), "LBN", "Upper middle income"),
    MorRow("Chad", 2020, "Male", Num(50), "TCD", "Low income"),
    MorRow("Chad", 2020, "Female", Num(30), NA, NA),
    [ MorRow("Chad", 2020, "Male", Num(10), "TCD", "Low income")
        EXCEPT !.date = NaN ] >>

Init ==
    /\ src_tob \in SubTables(TobMaster, MaxTobRows)
    /\ src_mor \in SubTables(MorMaster, MaxMorRows)
    /\ pc = "read_tob"
    /\ country = NA
    /\ ColdCache
    /\ argsort = << >>
    /\ Unrun

Spec == Init /\ [][Next]_vars

----------------------------------------------------------------------------
(* The aggregates alone: the script up to the time series, on workbooks that
   hold the same rows under the two indicators *)

AggRow(c, d, g, e, k, w) ==
    [ setting |-> c, date |-> d, subgroup |-> g, estimate |-> e, iso3 |-> k,
      income |-> w ]

AggRows == {
    AggRow("Chad", 2020, "Male", Num(10), "TCD", "Low income"),
    AggRow("Chad", 2020, "Female", Num(30), "TCD", "Low income"),
    AggRow("Lebanon", 2020, "Male", Num(50), "LBN", "Upper middle income"),
    AggRow("Lebanon", 2020, "Male", Num(30), NA, NA),
    AggRow("Chad", 2025, "Male", NaN, "TCD", "Low income"),
    AggRow("Kosovo", 2020, "Female", NaN, NA, "High income"),
    AggRow("Lebanon", 2025, "Female", Num(10), "LBN", NA) }

TobOf(r) == TobRow(r.setting, r.date, r.subgroup, PREV_IND, r.estimate, r.income)

MorOf(r) == MorRow(r.setting, r.date, r.subgroup, r.estimate, r.iso3, r.income)

CountryNames == << "Algeria", "Brazil", "Chad", "Denmark", "Egypt", "France",
                   "Ghana", "Haiti" >>

\* The estimates one country contributes: none, two, one, or one missing
TopChoices == { << >>, << Num(10), Num(30) >>, << Num(50) >>, << NaN >> }

RECURSIVE TopRows(_, _)
TopRows(pick, i) ==
    IF i > NumTopCountries THEN << >>
    ELSE [ j \in 1..Len(pick[i]) |->
             AggRow(CountryNames[i], 2020, Sexes[j], pick[i][j], "XKX",
                    "High income") ]
         \o TopRows(pick, i + 1)

AggTables ==
    SeqsUpTo(AggRows, MaxRecs)
    \cup { TopRows(pick, 1) : pick \in [ 1..NumTopCountries -> TopChoices ] }

InitAgg ==
    /\ \E rows \in AggTables :
        /\ src_tob = [ i \in 1..Len(rows) |-> TobOf(rows[i]) ]
        /\ src_mor = [ i \in 1..Len(rows) |-> MorOf(rows[i]) ]
    /\ pc = "read_tob"
    /\ country = NA
    /\ ColdCache
    /\ argsort = << >>
    /\ Unrun

NextAgg == ReadTob \/ ReadMor \/ Select \/ Aggregates \/ PrevSeries

SpecAgg == InitAgg /\ [][NextAgg]_vars

----------------------------------------------------------------------------
(* Properties of the loaders *)

MF == {"Male", "Female"}

\* o is the normalised form of the source row r: the fields renamed, the
\* year the whole part of the date
Corresponds(r, o, val) ==
    /\ o.country = r.setting
    /\ o.sex = r.subgroup
    /\ o.indicator_name = r.indicator_name
    /\ o[val] = r.estimate
    /\ ~IsNaN(r.date)
    /\ IF r.date[1] >= 0
       THEN /\ o.year * r.date[2] <= r.date[1]
            /\ r.date[1] < (o.year + 1) * r.date[2]
       ELSE /\ (o.year - 1) * r.date[2] < r.date[1]
            /\ r.date[1] <= o.year * r.date[2]

Wanted(r, indicators) ==
    r.indicator_name \in Range(indicators) /\ r.subgroup \in MF

LoadOk(out, rows, indicators, val) ==
    /\ \A j \in 1..Len(out) :
        /\ out[j].sex \in MF
        /\ out[j].indicator_name \in Range(indicators)
        /\ Cardinality({ k \in 1..Len(out) : out[k] = out[j] })
             = Cardinality({ i \in 1..Len(rows) :
                               /\ Wanted(rows[i], indicators)
                               /\ Corresponds(rows[i], out[j], val) })
    /\ \A i \in 1..Len(rows) :
        Wanted(rows[i], indicators)
            => \E j \in 1..Len(out) : Corresponds(rows[i], out[j], val)
    /\ Len(out) = Cardinality({ i \in 1..Len(rows) : Wanted(rows[i], indicators) })

\* C1: every record a loader call returns has sex Male or Female and an
\* indicator of the list the call was made with, and the records returned
\* are exactly the source rows that satisfy both, each as often as the
\* source holds it.
C1_LoadKeepsExactlyWantedRows ==
    /\ (call.fn = "load_tobacco" /\ ~call.raised)
         => LoadOk(call.ret, src_tob, call.args[2], "prevalence")
    /\ (call.fn = "load_mortality" /\ ~call.raised)
         => LoadOk(call.ret, src_mor, << MORT_IND >>, "mortality")

C1_Witness ==
    /\ call.fn = "load_tobacco"
    /\ ~call.raised
    /\ call.ret # << >>
    /\ \E i \in 1..Len(src_tob) :
        /\ src_tob[i].indicator_name \in Range(call.args[2])
        /\ src_tob[i].subgroup \notin MF
    /\ \E i \in 1..Len(src_tob) :
        /\ src_tob[i].indicator_name \notin Range(call.args[2])
        /\ src_tob[i].subgroup \in MF

FreshLoad(fn, args) ==
    IF fn = "load_tobacco" THEN load_tobacco(src_tob, args[2]).rows
    ELSE load_mortality(src_mor).rows

\* C6: a loader call whose (source, indicator set) pair has been loaded
\* before returns the first result for that pair and the workbook is not
\* read again; a call for a pair not loaded before reads the workbook; and
\* whatever was loaded before, a call returns what the loader gives on the
\* source for its own indicator list, never the result of another pair.
C6_CacheIsKeyedByPair ==
    call.fn # "none" =>
        /\ ~call.raised =>
            /\ call.ret = first[<< call.fn, call.args >>]
            /\ call.ret = FreshLoad(call.fn, call.args)
        /\ call.same => (~call.raised /\ reads = call.reads_at)
        /\ ~call.same => reads = call.reads_at + 1

C6_Witness ==
    /\ call.fn = "load_tobacco"
    /\ call.same
    /\ reads = call.reads_at
    /\ \E k \in DOMAIN first :
        /\ k[1] = "load_tobacco"
        /\ k[2] # call.args
        /\ first[k] # call.ret

----------------------------------------------------------------------------
(* Properties of the aggregates *)

RECURSIVE IdxSum(_, _, _)
IdxSum(I, df, f) ==
    IF I = {} THEN Num(0)
    ELSE LET i == CHOOSE x \in I : TRUE
         IN  RAdd(df[i][f], IdxSum(I \ {i}, df, f))

\* v is the arithmetic mean of the cells df[i][f], i in I; undefined for no cell
MeanIs(v, df, I, f) ==
    IF I = {} THEN IsNaN(v)
    ELSE /\ ~IsNaN(v)
         /\ RMul(v, Num(Cardinality(I))) = IdxSum(I, df, f)

OutKey(row, outkeys) == [ k \in 1..Len(outkeys) |-> row[outkeys[k]] ]

Keyed(df, keys) ==
    { i \in 1..Len(df) : \A k \in 1..Len(keys) : ~IsNA(keys[k], df[i][keys[k]]) }

Members(df, keys, key, val) ==
    { i \in 1..Len(df) : KeyOf(df[i], keys) = key /\ ~IsNaN(df[i][val]) }

\* The rows of G are keyed one to one by the key set K
KeyedBy(G, outkeys, K) ==
    /\ \A n, o \in 1..Len(G) : n # o => OutKey(G[n], outkeys) # OutKey(G[o], outkeys)
    /\ { OutKey(G[n], outkeys) : n \in 1..Len(G) } = K

MeansOk(G, df, keys, outkeys, val, outval) ==
    \A n \in 1..Len(G) :
        MeanIs(G[n][outval], df,
               Members(df, keys, OutKey(G[n], outkeys), val), val)

\* One row per key whose fields are all present, each the mean of its members
GroupedOk(G, df, keys, outkeys, val, outval) ==
    /\ KeyedBy(G, outkeys, { KeyOf(df[i], keys) : i \in Keyed(df, keys) })
    /\ MeansOk(G, df, keys, outkeys, val, outval)

\* One row per key of the input, a key with a missing field included
GroupedAllOk(G, df, keys, outkeys, val, outval) ==
    /\ KeyedBy(G, outkeys, { KeyOf(df[i], keys) : i \in 1..Len(df) })
    /\ MeansOk(G, df, keys, outkeys, val, outval)

Countries(df) == { df[i].country : i \in 1..Len(df) }

\* The ranking holds rows of the per-country means: no country twice, each
\* mean right, and every country when there are at most TopCount
RankedOk(T, df, val) ==
    /\ \A n, o \in 1..Len(T) : n # o => T[n].country # T[o].country
    /\ \A n \in 1..Len(T) : T[n].country \in Countries(df)
    /\ MeansOk(T, df, << "country" >>, << "country" >>, val, val)
    /\ Cardinality(Countries(df)) <= TopCount
         => { T[n].country : n \in 1..Len(T) } = Countries(df)

\* C2 as amended: each grouped mean has exactly one row per distinct group
\* key among the records whose key fields are all present, and the row's
\* value is the mean of the present values of exactly the records with that
\* key, each occurrence counted; the records with a missing key field
\* (iso3, income group) are in no group.
C2_GroupedMeansOverPresentKeys ==
    /\ "map_df" \in bound =>
        /\ GroupedOk(map_df, df_mor, << "country", "iso3" >>,
                     << "country", "iso3" >>, "mortality", "avg_prev")
        /\ GroupedOk(grp_prev, df_tob, << "wbincome2024" >>, << "group" >>,
                     "prevalence", "value")
        /\ GroupedOk(grp_mor, df_mor, << "wbincome2023" >>, << "group" >>,
                     "mortality", "value")
        /\ RankedOk(top_prev, df_tob, "prevalence")
        /\ RankedOk(top_mor, df_mor, "mortality")
    /\ "prev_ts" \in bound =>
        GroupedOk(prev_ts, tob, << "year", "sex" >>, << "year", "sex" >>,
                  "prevalence", "prevalence")

\* C2 as stated: one row per distinct key of the input, the keys with a
\* missing iso3 or income group included.
C2_GroupedMeansOverAllKeys ==
    /\ "map_df" \in bound =>
        /\ GroupedAllOk(map_df, df_mor, << "country", "iso3" >>,
                        << "country", "iso3" >>, "mortality", "avg_prev")
        /\ GroupedAllOk(grp_prev, df_tob, << "wbincome2024" >>, << "group" >>,
                        "prevalence", "value")
        /\ GroupedAllOk(grp_mor, df_mor, << "wbincome2023" >>, << "group" >>,
                        "mortality", "value")
        /\ RankedOk(top_prev, df_tob, "prevalence")
        /\ RankedOk(top_mor, df_mor, "mortality")
    /\ "prev_ts" \in bound =>
        GroupedAllOk(prev_ts, tob, << "year", "sex" >>, << "year", "sex" >>,
                     "prevalence", "prevalence")

C2_Witness ==
    /\ "prev_ts" \in bound
    /\ \E i \in 1..Len(df_mor) : df_mor[i].iso3 = NA
    /\ \E n \in 1..Len(map_df) :
        \E i, j \in Members(df_mor, << "country", "iso3" >>,
                            OutKey(map_df[n], << "country", "iso3" >>),
                            "mortality") :
            df_mor[i].mortality # df_mor[j].mortality
    /\ \E i \in 1..Len(df_mor) : IsNaN(df_mor[i].mortality)

Defined(df, f) == \A n \in 1..Len(df) : ~IsNaN(df[n][f])

\* C9: a record with a missing value is in neither the sum nor the count of
\* its group, and no grouped output holds a row with an undefined mean.
C9_NoUndefinedMeanRow ==
    /\ "map_df" \in bound =>
        /\ MeansOk(map_df, df_mor, << "country", "iso3" >>,
                   << "country", "iso3" >>, "mortality", "avg_prev")
        /\ Defined(map_df, "avg_prev")
        /\ Defined(grp_prev, "value")
        /\ Defined(grp_mor, "value")
        /\ Defined(top_prev, "prevalence")
        /\ Defined(top_mor, "mortality")
    /\ "prev_ts" \in bound => Defined(prev_ts, "prevalence")

Min(a, b) == IF a < b THEN a ELSE b

Pos(G, row) == CHOOSE n \in 1..Len(G) : G[n] = row

\* T is the top-n selection of the grouped frame G on column f
TopOk(T, G, n, f) ==
    /\ Len(T) = Min(n, Len(G))
    /\ \A i \in 1..Len(T) : T[i] \in Range(G)
    /\ \A i, j \in 1..Len(T) : i < j =>
        /\ Pos(G, T[i]) # Pos(G, T[j])
        /\ IsNaN(T[i][f]) => IsNaN(T[j][f])
        /\ ~IsNaN(T[i][f]) /\ ~IsNaN(T[j][f]) =>
            /\ ~RLess(T[i][f], T[j][f])
            /\ T[i][f] = T[j][f] => Pos(G, T[i]) < Pos(G, T[j])
    /\ \A i \in 1..Len(T) : \A g \in Range(G) \ Range(T) :
        /\ ~IsNaN(g[f]) => ~IsNaN(T[i][f]) /\ ~RLess(T[i][f], g[f])
        /\ ~IsNaN(g[f]) /\ T[i][f] = g[f] => Pos(G, T[i]) < Pos(G, g)

ExampleRows == {
    [ country |-> "Chad", year |-> 2020, sex |-> "Male", value |-> Num(10) ],
    [ country |-> "Chad", year |-> 2020, sex |-> "Female", value |-> Num(30) ],
    [ country |-> "Lebanon", year |-> 2020, sex |-> "Male", value |-> Num(50) ] }

Core(df, val) ==
    { [ country |-> df[i].country, year |-> df[i].year, sex |-> df[i].sex,
        value |-> df[i][val] ] : i \in 1..Len(df) }

IsExample(df, val) == Len(df) = 3 /\ Core(df, val) = ExampleRows

\* C3: each top-5 ranking that is computed has min(5, number of countries)
\* rows of the per-country means, in descending order of the mean, no
\* returned mean below one left out, equal means in the order of the grouped
\* frame (rows with an undefined mean last); the records (A,Male,10),
\* (A,Female,30), (B,Male,50) rank B with 50 before A with 20.
C3_TopFiveDescendingStable ==
    /\ "top_prev" \in bound =>
        /\ TopOk(top_prev, GroupMean(df_tob, << "country" >>, "prevalence"),
                 TopCount, "prevalence")
        /\ Len(top_prev) = Min(TopCount, Cardinality(Countries(df_tob)))
        /\ IsExample(df_tob, "prevalence") =>
            top_prev = << [ country |-> "Lebanon", prevalence |-> Num(50) ],
                          [ country |-> "Chad", prevalence |-> Num(20) ] >>
    /\ "top_mor" \in bound =>
        /\ TopOk(top_mor, GroupMean(df_mor, << "country" >>, "mortality"),
                 TopCount, "mortality")
        /\ Len(top_mor) = Min(TopCount, Cardinality(Countries(df_mor)))

----------------------------------------------------------------------------
(* Properties of the forecasts and of the run *)

Table(t) == IF t = "prevalence" THEN tob ELSE mor

Combined(t) ==
    IF t = "prevalence"
    THEN (IF "df_plot" \in bound THEN df_plot ELSE << >>)
    ELSE (IF "df_mplot" \in bound THEN df_mplot ELSE << >>)

ActualYears(t, x) == { r.year : r \in Range(OfSex(Table(t), x)) }

ActualPoints(t, x) == OfSex(GroupMean(Table(t), << "year", "sex" >>, t), x)

ForecastPoints(t, x) ==
    SelectSeq(Combined(t), LAMBDA r : r.type = "Forecast" /\ r.sex = x)

\* The points p (at the future years, in order) lie on the least-squares
\* line of the actual points a: the residuals of the line through p sum to
\* zero, and so do the residuals weighted by the year
OnFittedLine(p, a, val) ==
    LET m == RDiv(RSub(p[2][val], p[1][val]), Num(p[2].year - p[1].year))
        b == RSub(p[1][val], RMul(m, Num(p[1].year)))
        res(i) == RSub(a[i][val], RAdd(RMul(m, Num(a[i].year)), b))
    IN  /\ RSum([ i \in 1..Len(a) |-> res(i) ]) = Num(0)
        /\ RSum([ i \in 1..Len(a) |-> RMul(Num(a[i].year), res(i)) ]) = Num(0)

ForecastOk(t, x) ==
    LET p == ForecastPoints(t, x)
    IN  /\ Len(p) = Len(years_future)
        /\ \A i \in 1..Len(p) : p[i].year = years_future[i]
        /\ OnFittedLine(p, ActualPoints(t, x), t)

\* C4: when a run that came to the forecasts has ended, each sex whose
\* actual series for the selected country has at least two distinct years
\* has exactly one Forecast point per future year, in the order 2025, 2030,
\* each on the least-squares line of that sex's actual points.
C4_ForecastForEverySufficientSeries ==
    (Finished /\ "prev_ts" \in bound) =>
        \A s \in Series :
            Cardinality(ActualYears(s[1], s[2])) >= 2 => ForecastOk(s[1], s[2])

\* C5: a series with fewer than two distinct years whose fit was attempted
\* ends in failure, and no Forecast point is made for it.
C5_UnderdeterminedFitFails ==
    \A s \in Series :
        (outcome[s] # "pending" /\ Cardinality(ActualYears(s[1], s[2])) < 2)
            => /\ outcome[s] = "raised"
               /\ \A i \in 1..Len(forecasts) : forecasts[i].sex # s[2]
               /\ ForecastPoints(s[1], s[2]) = << >>

\* C7: when a run that came to the forecasts has ended, each of the four
\* series has reached its own success or failure, and the mortality series
\* and the breakdown are made.
C7_SeriesAreIndependent ==
    (Finished /\ "prev_ts" \in bound) =>
        /\ \A s \in Series : outcome[s] \in {"ok", "raised"}
        /\ {"mort_ts", "df_mplot", "df_stack"} \subseteq bound

NoOverlap(df) ==
    \A i, j \in 1..Len(df) :
        (df[i].year = df[j].year /\ df[i].sex = df[j].sex)
            => df[i].type = df[j].type

\* C8: in each combined series no (year, sex) pair has both an Actual and a
\* Forecast point.
C8_NoForecastWhereActual ==
    /\ "df_plot" \in bound => NoOverlap(df_plot)
    /\ "df_mplot" \in bound => NoOverlap(df_mplot)

WholeDataset(o) == << o.map_df, o.grp_prev, o.grp_mor, o.top_prev, o.top_mor >>

TobaccoLoaded == IF "df_stack" \in bound THEN all_inds ELSE << PREV_IND >>

\* C10: the record sets the loaders return are those of the first load, in
\* every run; a finished run for a country shows what the first finished run
\* for that country showed, whatever was selected in between; and the map,
\* income-group and top-5 outputs are the same for every selected country.
C10_ReportLeavesDatasetsAlone ==
    /\ "df_tob" \in bound =>
        df_tob = first[<< "load_tobacco", << tob_path, TobaccoLoaded >> >>]
    /\ "df_mor" \in bound =>
        df_mor = first[<< "load_mortality", << mor_path >> >>]
    /\ \A k \in DOMAIN first : cache[CacheKey(k[1], k[2])] = first[k]
    /\ Finished =>
        /\ country \in DOMAIN seen => Outputs = seen[country]
        /\ \A c \in DOMAIN seen : WholeDataset(seen[c]) = WholeDataset(Outputs)

C10_Witness ==
    /\ pc = "done"
    /\ country \in DOMAIN seen
    /\ \E c \in DOMAIN seen : c # country /\ seen[c].kpi # kpi
    /\ map_df # << >>
    /\ df_stack # << >>

====
